---------------------------- MODULE Spec2Model ----------------------------
(***************************************************************************)
(* A model of src/ids/identity.py: the IDSIdentity binary container        *)
(* (encode / decode) and the register transaction.                         *)
(*                                                                         *)
(* Representation.  A Python bytes value is a sequence of numbers 0..255.  *)
(* A Python int that can exceed the machine width (an EC coordinate, an    *)
(* RSA modulus) is represented by its canonical big-endian base-256 digit  *)
(* sequence: no leading zero digit, and 0 is the empty sequence.  Two such *)
(* ints are equal exactly when their digit sequences are equal.  A Python  *)
(* dict is a record (a function on its keys); `k in d` is k \in DOMAIN d.  *)
(* A call that raises yields a result record with ok = FALSE and the name  *)
(* of the Python exception in err.                                         *)
(***************************************************************************)
EXTENDS Integers, Sequences, FiniteSets, TLC

VARIABLES
    identity,    \* the IDSIdentity object the caller holds
    cpc,         \* codec scenario position: "new", "encoded", "decoded"
    encoded,     \* result of identity.encode()
    decInput,    \* bytes handed to IDSIdentity.decode
    decoded,     \* result of IDSIdentity.decode(decInput)
    args,        \* register's arguments other than identity
    pc,          \* position inside register()
    body,        \* register's local `body` (dict, then serialized blob)
    headers,     \* register's local `headers`
    signed,      \* arguments add_auth_signature was called with
    posted,      \* arguments requests.post was called with
    r,           \* register's local `r` (HTTP response, then parsed plist)
    outcome,     \* how register ended: "" while running
    result,      \* the mapping register returned
    trace        \* the I/O steps register has performed, in order

codecVars == <<cpc, encoded, decInput, decoded>>
regVars == <<args, pc, body, headers, signed, posted, r, outcome, result, trace>>
vars == <<identity, cpc, encoded, decInput, decoded,
          args, pc, body, headers, signed, posted, r, outcome, result, trace>>

---------------------------------------------------------------------------
(* Key material used as inputs.  The P-256 points are real points of the   *)
(* curve (the generator, two multiples of it with a leading zero byte in   *)
(* X resp. Y, and the point inside the literal container of line 190).     *)

P256_G_x == <<107, 23, 209, 242, 225, 44, 66, 71, 248, 188, 230, 229, 99, 164, 64, 242, 119, 3, 125, 129, 45, 235, 51, 160, 244, 161, 57, 69, 216, 152, 194, 150>>
P256_G_y == <<79, 227, 66, 226, 254, 26, 127, 155, 142, 231, 235, 74, 124, 15, 158, 22, 43, 206, 51, 87, 107, 49, 94, 206, 203, 182, 64, 104, 55, 191, 81, 245>>
\* 379*G: X needs only 31 bytes
P256_A_x == <<85, 67, 137, 74, 243, 208, 14, 215, 215, 64, 171, 219, 215, 92, 150, 176, 104, 119, 183, 135, 219, 95, 112, 238, 167, 139, 144, 168, 215, 192, 10>>
P256_A_y == <<187, 76, 133, 163, 216, 234, 41, 239, 170, 250, 36, 64, 105, 18, 221, 132, 213, 177, 77, 195, 43, 246, 86, 239, 108, 107, 213, 138, 93, 148, 63, 146>>
\* 43*G: Y needs only 31 bytes
P256_B_x == <<152, 106, 226, 80, 111, 31, 241, 4, 208, 66, 48, 134, 29, 143, 75, 73, 143, 75, 196, 198, 208, 9, 179, 15, 117, 68, 220, 18, 155, 130, 210, 141>>
P256_B_y == <<60, 204, 192, 166, 70, 14, 10, 227, 40, 164, 217, 125, 60, 123, 97, 216, 111, 198, 40, 156, 24, 159, 37, 37, 17, 12, 68, 27, 176, 126, 151>>
\* the point carried by the literal container of line 190
P256_H_x == <<135, 30, 235, 228, 117, 11, 163, 158, 156, 188, 248, 114, 75, 30, 254, 52, 52, 37, 102, 36, 29, 232, 187, 198, 189, 67, 68, 156, 107, 118, 32, 75>>
P256_H_y == <<193, 30, 177, 223, 52, 200, 83, 54, 15, 146, 208, 61, 30, 132, 156, 197, 165, 182, 183, 125, 221, 236, 30, 30, 216, 81, 216, 202, 219, 7, 39, 199>>
\* the generator of secp256k1: 32-byte coordinates, not a point of P-256
K1_G_x == <<121, 190, 102, 126, 249, 220, 187, 172, 85, 160, 98, 149, 206, 135, 11, 7, 2, 155, 252, 219, 45, 206, 40, 217, 89, 242, 129, 91, 22, 248, 23, 152>>
K1_G_y == <<72, 58, 218, 119, 38, 163, 196, 101, 93, 164, 251, 252, 14, 17, 8, 168, 253, 23, 180, 72, 166, 133, 84, 25, 156, 71, 208, 143, 251, 16, 212, 184>>
\* the generator of P-384: 48-byte coordinates
P384_G_x == <<170, 135, 202, 34, 190, 139, 5, 55, 142, 177, 199, 30, 243, 32, 173, 116, 110, 29, 59, 98, 139, 167, 155, 152, 89, 247, 65, 224, 130, 84, 42, 56, 85, 2, 242, 93, 191, 85, 41, 108, 58, 84, 94, 56, 114, 118, 10, 183>>
P384_G_y == <<54, 23, 222, 74, 150, 38, 44, 111, 93, 158, 152, 191, 146, 146, 220, 41, 248, 244, 29, 189, 40, 154, 20, 124, 233, 218, 49, 19, 181, 240, 184, 192, 10, 96, 177, 206, 29, 126, 129, 157, 122, 67, 29, 124, 144, 234, 14, 95>>
\* RSA moduli: 1280 bits (160 bytes, the size line 46 generates; this one is
\* the modulus of the literal container of line 190), 1288 bits (161 bytes),
\* 1296 bits (162 bytes) and 1024 bits (128 bytes)
N1280 == <<168, 32, 252, 159, 166, 176, 86, 50, 206, 28, 167, 19, 158, 3, 209, 216, 151, 97, 187, 221, 172, 134, 184, 16, 40, 137, 19, 81, 80, 143, 240, 43, 69, 80, 209, 176, 54, 238, 148, 205, 168, 158, 241, 237, 112, 164, 151, 50, 54, 30, 233, 171, 212, 203, 172, 5, 215, 140, 63, 187, 162, 222, 44, 254, 13, 26, 185, 136, 87, 64, 153, 236, 160, 93, 13, 26, 62, 100, 86, 178, 64, 197, 80, 243, 109, 128, 121, 245, 160, 71, 174, 216, 104, 146, 239, 202, 133, 203, 66, 237, 169, 87, 140, 19, 212, 79, 219, 89, 73, 50, 220, 77, 31, 246, 99, 23, 28, 209, 118, 221, 188, 99, 172, 44, 38, 86, 253, 7, 160, 195, 159, 0, 31, 198, 228, 2, 117, 18, 112, 143, 226, 176, 20, 250, 105, 18, 187, 166, 154, 54, 81, 165, 222, 43, 158, 123, 207, 200, 27, 125>>
N1288 == <<195, 165, 77, 202, 24, 37, 48, 187, 29, 109, 19, 44, 222, 214, 35, 123, 46, 217, 30, 63, 114, 31, 203, 25, 113, 23, 68, 148, 214, 73, 60, 157, 92, 52, 96, 190, 49, 32, 30, 105, 254, 218, 160, 238, 232, 185, 153, 127, 92, 124, 41, 153, 253, 175, 229, 147, 37, 60, 214, 84, 175, 77, 250, 215, 20, 39, 160, 174, 179, 254, 233, 35, 47, 138, 242, 33, 31, 158, 228, 145, 197, 177, 11, 236, 181, 86, 59, 252, 30, 111, 147, 66, 126, 203, 200, 254, 41, 85, 229, 205, 142, 70, 220, 142, 212, 183, 194, 118, 77, 42, 90, 77, 118, 119, 6, 248, 93, 134, 144, 2, 74, 214, 189, 163, 64, 27, 233, 200, 203, 204, 201, 53, 246, 205, 31, 97, 34, 106, 225, 83, 56, 174, 26, 52, 0, 77, 51, 186, 13, 36, 106, 192, 76, 129, 177, 186, 242, 62, 59, 249, 239>>
N1296 == <<157, 245, 247, 159, 43, 73, 52, 175, 135, 245, 82, 11, 105, 185, 75, 13, 152, 46, 133, 187, 85, 182, 114, 168, 114, 99, 122, 205, 116, 102, 252, 182, 14, 14, 143, 241, 132, 99, 176, 228, 178, 186, 41, 112, 52, 116, 240, 100, 172, 104, 247, 0, 245, 176, 43, 61, 198, 102, 244, 91, 222, 170, 44, 202, 237, 205, 43, 81, 87, 65, 14, 77, 238, 74, 242, 179, 79, 67, 10, 7, 52, 71, 222, 99, 108, 14, 128, 108, 149, 123, 166, 132, 214, 67, 31, 181, 234, 215, 66, 77, 9, 225, 93, 2, 76, 88, 72, 242, 61, 31, 166, 247, 54, 29, 127, 97, 141, 21, 50, 231, 14, 32, 226, 166, 102, 141, 231, 244, 126, 132, 103, 229, 70, 213, 62, 200, 226, 161, 37, 123, 219, 37, 108, 155, 62, 79, 187, 73, 129, 70, 239, 112, 48, 203, 249, 83, 114, 82, 220, 206, 173, 215>>
N1024 == <<183, 100, 182, 163, 47, 187, 9, 173, 234, 225, 9, 196, 169, 151, 32, 57, 117, 53, 43, 135, 139, 20, 92, 138, 66, 216, 132, 207, 76, 253, 167, 45, 142, 29, 93, 217, 37, 137, 8, 45, 133, 42, 113, 34, 135, 62, 232, 5, 173, 213, 137, 66, 22, 122, 56, 82, 134, 25, 92, 103, 159, 156, 105, 148, 228, 91, 138, 177, 9, 128, 18, 7, 9, 97, 243, 125, 228, 54, 221, 253, 201, 157, 110, 117, 175, 101, 71, 207, 177, 27, 66, 7, 36, 130, 220, 83, 28, 43, 195, 144, 124, 150, 23, 235, 94, 80, 137, 228, 1, 134, 186, 168, 165, 125, 17, 158, 111, 182, 93, 0, 171, 195, 42, 243, 142, 102, 127, 3>>

\* the bytes literal under "public-message-identity-key" at line 190
HardcodedIdentityKey == <<48, 129, 246, 129, 67, 0, 65, 4, 135, 30, 235, 228, 117, 11, 163, 158, 156, 188, 248, 114, 75, 30, 254, 52, 52, 37, 102, 36, 29, 232, 187, 198, 189, 67, 68, 156, 107, 118, 32, 75, 193, 30, 177, 223, 52, 200, 83, 54, 15, 146, 208, 61, 30, 132, 156, 197, 165, 182, 183, 125, 221, 236, 30, 30, 216, 81, 216, 202, 219, 7, 39, 199, 130, 129, 174, 0, 172, 48, 129, 169, 2, 129, 161, 0, 168, 32, 252, 159, 166, 176, 86, 50, 206, 28, 167, 19, 158, 3, 209, 216, 151, 97, 187, 221, 172, 134, 184, 16, 40, 137, 19, 81, 80, 143, 240, 43, 69, 80, 209, 176, 54, 238, 148, 205, 168, 158, 241, 237, 112, 164, 151, 50, 54, 30, 233, 171, 212, 203, 172, 5, 215, 140, 63, 187, 162, 222, 44, 254, 13, 26, 185, 136, 87, 64, 153, 236, 160, 93, 13, 26, 62, 100, 86, 178, 64, 197, 80, 243, 109, 128, 121, 245, 160, 71, 174, 216, 104, 146, 239, 202, 133, 203, 66, 237, 169, 87, 140, 19, 212, 79, 219, 89, 73, 50, 220, 77, 31, 246, 99, 23, 28, 209, 118, 221, 188, 99, 172, 44, 38, 86, 253, 7, 160, 195, 159, 0, 31, 198, 228, 2, 117, 18, 112, 143, 226, 176, 20, 250, 105, 18, 187, 166, 154, 54, 81, 165, 222, 43, 158, 123, 207, 200, 27, 125, 2, 3, 1, 0, 1>>

---------------------------------------------------------------------------
(* Values of the collaborating libraries.                                  *)

None == [none |-> TRUE]

\* cryptography's key objects.  A private key carries its public numbers and
\* secret material; the secret itself is never read by this file.
ECPublicKey(curve, x, y) ==
    [kind |-> "ec_public", curve |-> curve, x |-> x, y |-> y]
ECPrivateKey(curve, x, y) ==
    [kind |-> "ec_private", curve |-> curve, x |-> x, y |-> y]
RSAPublicKey(n, e) == [kind |-> "rsa_public", n |-> n, e |-> e]
RSAPrivateKey(n, e) == [kind |-> "rsa_private", n |-> n, e |-> e]

\* key.public_key()
public_key(key) ==
    IF key.kind = "ec_private" THEN ECPublicKey(key.curve, key.x, key.y)
    ELSE IF key.kind = "rsa_private" THEN RSAPublicKey(key.n, key.e)
    ELSE key

\* key.public_numbers(): the record's x, y resp. n, e fields
public_numbers(key) == key

\* _helpers.serialize_key / _helpers.parse_key: a key object to its PEM text
\* and back.  The text is kept as a tagged value; parse_key undoes
\* serialize_key.
serialize_key(key) == [pem |-> key]
parse_key(text) == text.pem

\* int.to_bytes(length, "big") on a non-negative int: left-padded with zero
\* bytes, OverflowError when the int needs more than `length` bytes.
Zeros(k) == [i \in 1..k |-> 0]

\* a to_bytes that writes the minimal digits without padding
to_bytes_unpadded(n, length) ==
    IF Len(n) > length
    THEN [ok |-> FALSE, err |-> "OverflowError", bytes |-> <<>>]
    ELSE [ok |-> TRUE, err |-> "", bytes |-> n]

\* a to_bytes that keeps the low `length` bytes of an int that does not fit
to_bytes_wrapping(n, length) ==
    IF Len(n) > length
    THEN [ok |-> TRUE, err |-> "",
          bytes |-> SubSeq(n, Len(n) - length + 1, Len(n))]
    ELSE [ok |-> TRUE, err |-> "", bytes |-> Zeros(length - Len(n)) \o n]

to_bytes(n, length) ==
    IF Len(n) > length
    THEN [ok |-> FALSE, err |-> "OverflowError", bytes |-> <<>>]
    ELSE [ok |-> TRUE, err |-> "", bytes |-> Zeros(length - Len(n)) \o n]

\* int.from_bytes(b, "big"): the digits of b without its leading zero bytes
from_bytes(b) ==
    LET nz == {i \in 1..Len(b) : b[i] # 0}
    IN  IF nz = {} THEN <<>>
        ELSE SubSeq(b, CHOOSE i \in nz : \A j \in nz : i <= j, Len(b))

\* Python slices s[:k] and s[k:]
Take(s, k) == SubSeq(s, 1, IF k > Len(s) THEN Len(s) ELSE k)
Drop(s, k) == SubSeq(s, k + 1, Len(s))

\* BytesIO.read(k) at position pos: at most k bytes, fewer at the end
read(buf, pos, k) ==
    SubSeq(buf, pos + 1, IF pos + k > Len(buf) THEN Len(buf) ELSE pos + k)

\* ec.EllipticCurvePublicNumbers(x, y, ec.SECP256R1()).public_key() raises
\* ValueError unless (x, y) is a point of P-256.  The curve equation is
\* replaced by the table of the P-256 points used here; every other pair the
\* model hands to it (the secp256k1 generator) is off the curve.
OnCurveP256(x, y) ==
    <<x, y>> \in {<<P256_G_x, P256_G_y>>, <<P256_A_x, P256_A_y>>,
                  <<P256_B_x, P256_B_y>>, <<P256_H_x, P256_H_y>>}

\* rsa.RSAPublicNumbers(e=65537, n=n).public_key() raises ValueError unless
\* n >= 3 and 3 <= e < n and e is odd; with e = 65537 = 0x010001 that is
\* n > 65537.
RSAModulusValid(n) ==
    \/ Len(n) > 3
    \/ Len(n) = 3 /\ n[1] * 65536 + n[2] * 256 + n[3] > 65537

---------------------------------------------------------------------------
(* class IDSIdentity                                                       *)

\* IDSIdentity.__init__.  gen_ec and gen_rsa are the keys the two
\* generate_private_key calls return when no key is passed.
IDSIdentity(signing_key, encryption_key, signing_public_key, encryption_public_key, gen_ec, gen_rsa) ==
    LET sk == IF signing_key # None THEN signing_key
              ELSE IF signing_public_key # None THEN None
              ELSE serialize_key(gen_ec)
        spk == IF signing_key # None
               THEN serialize_key(public_key(parse_key(signing_key)))
               ELSE IF signing_public_key # None THEN signing_public_key
               ELSE serialize_key(public_key(parse_key(serialize_key(gen_ec))))
        ek == IF encryption_key # None THEN encryption_key
              ELSE IF encryption_public_key # None THEN None
              ELSE serialize_key(gen_rsa)
        epk == IF encryption_key # None
               THEN serialize_key(public_key(parse_key(encryption_key)))
               ELSE IF encryption_public_key # None THEN encryption_public_key
               ELSE serialize_key(public_key(parse_key(serialize_key(gen_rsa))))
    IN  [signing_key |-> sk, signing_public_key |-> spk,
         encryption_key |-> ek, encryption_public_key |-> epk]

DecodeFail(e) == [ok |-> FALSE, err |-> e, identity |-> None]

\* a decode that does not check the two bytes of line 60
decode_unchecked_prefix(inp) ==
    LET hdr == read(inp, 0, 5)
        raw_ecdsa == read(inp, Len(hdr), 67)
        sep == read(inp, Len(hdr) + Len(raw_ecdsa), 3)
        raw_rsa == read(inp, Len(hdr) + Len(raw_ecdsa) + Len(sep), 174)
        t2 == read(raw_rsa, 2, 3)
        t3 == read(raw_rsa, 5, 3)
        rsa_modulus == from_bytes(read(raw_rsa, 8, 161))
        t4 == read(raw_rsa, 169, 5)
        ec_x == from_bytes(Take(Drop(raw_ecdsa, 3), 32))
        ec_y == from_bytes(Drop(Drop(raw_ecdsa, 3), 32))
    IN  IF hdr # <<48, 129, 246, 129, 67>> THEN DecodeFail("AssertionError")
        ELSE IF sep # <<130, 129, 174>> THEN DecodeFail("AssertionError")
        ELSE IF t2 # <<48, 129, 169>> THEN DecodeFail("AssertionError")
        ELSE IF t3 # <<2, 129, 161>> THEN DecodeFail("AssertionError")
        ELSE IF t4 # <<2, 3, 1, 0, 1>> THEN DecodeFail("AssertionError")
        ELSE IF Take(raw_ecdsa, 3) # <<0, 65, 4>>
             THEN DecodeFail("AssertionError")
        ELSE IF ~OnCurveP256(ec_x, ec_y) THEN DecodeFail("ValueError")
        ELSE IF ~RSAModulusValid(rsa_modulus) THEN DecodeFail("ValueError")
        ELSE [ok |-> TRUE, err |-> "",
              identity |->
                IDSIdentity(None, None,
                    serialize_key(ECPublicKey("secp256r1", ec_x, ec_y)),
                    serialize_key(RSAPublicKey(rsa_modulus, 65537)),
                    None, None)]

\* IDSIdentity.decode(inp).  The reads advance two BytesIO positions: one
\* over inp, one over raw_rsa; each assert raises AssertionError.
decode(inp) ==
    LET hdr == read(inp, 0, 5)
        raw_ecdsa == read(inp, Len(hdr), 67)
        sep == read(inp, Len(hdr) + Len(raw_ecdsa), 3)
        raw_rsa == read(inp, Len(hdr) + Len(raw_ecdsa) + Len(sep), 174)
        t1 == read(raw_rsa, 0, 2)
        t2 == read(raw_rsa, Len(t1), 3)
        t3 == read(raw_rsa, Len(t1) + Len(t2), 3)
        mod_bytes == read(raw_rsa, Len(t1) + Len(t2) + Len(t3), 161)
        rsa_modulus == from_bytes(mod_bytes)
        t4 == read(raw_rsa, Len(t1) + Len(t2) + Len(t3) + Len(mod_bytes), 5)
        ec_x == from_bytes(Take(Drop(raw_ecdsa, 3), 32))
        ec_y == from_bytes(Drop(Drop(raw_ecdsa, 3), 32))
    IN  IF hdr # <<48, 129, 246, 129, 67>> THEN DecodeFail("AssertionError")
        ELSE IF sep # <<130, 129, 174>> THEN DecodeFail("AssertionError")
        ELSE IF t1 # <<0, 172>> THEN DecodeFail("AssertionError")
        ELSE IF t2 # <<48, 129, 169>> THEN DecodeFail("AssertionError")
        ELSE IF t3 # <<2, 129, 161>> THEN DecodeFail("AssertionError")
        ELSE IF t4 # <<2, 3, 1, 0, 1>> THEN DecodeFail("AssertionError")
        ELSE IF Take(raw_ecdsa, 3) # <<0, 65, 4>>
             THEN DecodeFail("AssertionError")
        ELSE IF ~OnCurveP256(ec_x, ec_y) THEN DecodeFail("ValueError")
        ELSE IF ~RSAModulusValid(rsa_modulus) THEN DecodeFail("ValueError")
        ELSE [ok |-> TRUE, err |-> "",
              identity |->
                IDSIdentity(None, None,
                    serialize_key(ECPublicKey("secp256r1", ec_x, ec_y)),
                    serialize_key(RSAPublicKey(rsa_modulus, 65537)),
                    None, None)]

EncodeFail(e) == [ok |-> FALSE, err |-> e, bytes |-> <<>>]

\* an encode that writes Y before X
encode_swapped_xy(self) ==
    LET n == to_bytes(public_numbers(parse_key(self.encryption_public_key)).n, 161)
        x == to_bytes(public_numbers(parse_key(self.signing_public_key)).x, 32)
        y == to_bytes(public_numbers(parse_key(self.signing_public_key)).y, 32)
    IN  IF ~n.ok THEN EncodeFail(n.err)
        ELSE IF ~x.ok THEN EncodeFail(x.err)
        ELSE IF ~y.ok THEN EncodeFail(y.err)
        ELSE [ok |-> TRUE, err |-> "",
              bytes |-> <<48, 129, 246, 129, 67>> \o <<0, 65, 4>>
                        \o y.bytes \o x.bytes \o <<130, 129, 174>>
                        \o <<0, 172>> \o <<48, 129, 169>> \o <<2, 129, 161>>
                        \o n.bytes \o <<2, 3, 1, 0, 1>>]

\* IDSIdentity.encode(self).  raw_rsa is built first (line 93 is the first
\* call that can raise), then the output; neither the curve nor the public
\* exponent of the keys is read.
encode(self) ==
    LET n == to_bytes(public_numbers(parse_key(self.encryption_public_key)).n, 161)
        x == to_bytes(public_numbers(parse_key(self.signing_public_key)).x, 32)
        y == to_bytes(public_numbers(parse_key(self.signing_public_key)).y, 32)
        raw_rsa == <<0, 172>> \o <<48, 129, 169>> \o <<2, 129, 161>>
                   \o n.bytes \o <<2, 3, 1, 0, 1>>
    IN  IF ~n.ok THEN EncodeFail(n.err)
        ELSE IF ~x.ok THEN EncodeFail(x.err)
        ELSE IF ~y.ok THEN EncodeFail(y.err)
        ELSE [ok |-> TRUE, err |-> "",
              bytes |-> <<48, 129, 246, 129, 67>> \o <<0, 65, 4>>
                        \o x.bytes \o y.bytes \o <<130, 129, 174>>
                        \o raw_rsa]

---------------------------------------------------------------------------
(* Inputs of the codec scenario.                                           *)

ECKeyNumbers ==
    {<<"secp256r1", P256_G_x, P256_G_y>>, <<"secp256r1", P256_A_x, P256_A_y>>,
     <<"secp256r1", P256_B_x, P256_B_y>>, <<"secp256k1", K1_G_x, K1_G_y>>,
     <<"secp384r1", P384_G_x, P384_G_y>>}
RSAKeyNumbers ==
    {<<N1280, 65537>>, <<N1288, 65537>>, <<N1296, 65537>>, <<N1024, 65537>>,
     <<N1280, 3>>}

ECPrivateKeys == {ECPrivateKey(k[1], k[2], k[3]) : k \in ECKeyNumbers}
RSAPrivateKeys == {RSAPrivateKey(k[1], k[2]) : k \in RSAKeyNumbers}

\* ec.generate_private_key(ec.SECP256R1()): some private key on P-256
GeneratedECKeys == {k \in ECPrivateKeys : k.curve = "secp256r1"}
\* rsa.generate_private_key(65537, 1280): some 1280-bit key with e = 65537
GeneratedRSAKeys == {k \in RSAPrivateKeys : k.e = 65537 /\ Len(k.n) = 160}

\* what a caller can pass for a private resp. a public key argument
SigningKeyArgs == {None} \cup {serialize_key(k) : k \in ECPrivateKeys}
SigningPublicKeyArgs ==
    {None} \cup {serialize_key(public_key(k)) : k \in ECPrivateKeys}
EncryptionKeyArgs == {None} \cup {serialize_key(k) : k \in RSAPrivateKeys}
EncryptionPublicKeyArgs ==
    {None} \cup {serialize_key(public_key(k)) : k \in RSAPrivateKeys}

\* the identities IDSIdentity(...) can construct from these arguments
Identities ==
    {IDSIdentity(sk, ek, spk, epk, ge, gr) :
        sk \in SigningKeyArgs, ek \in EncryptionKeyArgs,
        spk \in SigningPublicKeyArgs, epk \in EncryptionPublicKeyArgs,
        ge \in GeneratedECKeys, gr \in GeneratedRSAKeys}

\* offsets (from 0) of the constant tag bytes of the container
TagOffsets == (0..7) \cup (72..82) \cup (244..248)

\* s with the byte at offset off replaced by v
WithByte(s, off, v) == [s EXCEPT ![off + 1] = v]
\* s with the bytes from offset off on replaced by those of t
WithBytes(s, off, t) ==
    [i \in 1..Len(s) |-> IF i > off /\ i <= off + Len(t) THEN t[i - off] ELSE s[i]]

\* the byte strings handed to decode once `base` has been encoded: base
\* itself, base with one tag byte changed to any other value, base with its
\* EC point or its modulus replaced by those of another valid key, base cut
\* short by one byte and base followed by one more byte
DecodeInputs(base) ==
    {base}
    \cup {WithByte(base, off, v) : off \in TagOffsets, v \in 0..255}
    \cup {WithBytes(base, 8, to_bytes(k[2], 32).bytes \o to_bytes(k[3], 32).bytes) :
            k \in {q \in ECKeyNumbers : q[1] = "secp256r1"}}
    \cup {WithBytes(base, 83, to_bytes(k[1], 161).bytes) :
            k \in {q \in RSAKeyNumbers : Len(q[1]) <= 161}}
    \cup {SubSeq(base, 1, Len(base) - 1), base \o <<0>>}

---------------------------------------------------------------------------
(* The codec scenario: an identity is constructed, encoded, and a byte     *)
(* string derived from the encoding is decoded.                            *)

NoEncode == [ok |-> FALSE, err |-> "", bytes |-> <<>>]
NoDecode == [ok |-> FALSE, err |-> "", identity |-> None]

RegIdle ==
    /\ args = None /\ pc = "idle" /\ body = None /\ headers = None /\ signed = None
    /\ posted = None /\ r = None /\ outcome = None /\ result = <<>>
    /\ trace = <<>>

InitCodec ==
    /\ identity \in Identities
    /\ cpc = "new" /\ encoded = NoEncode /\ decInput = <<>>
    /\ decoded = NoDecode
    /\ RegIdle

Encode ==
    /\ cpc = "new"
    /\ encoded' = encode(identity)
    /\ cpc' = "encoded"
    /\ UNCHANGED <<identity, decInput, decoded>>
    /\ UNCHANGED regVars

Decode ==
    /\ cpc = "encoded" /\ encoded.ok
    /\ \E inp \in DecodeInputs(encoded.bytes) :
          /\ decInput' = inp
          /\ decoded' = decode(inp)
    /\ cpc' = "decoded"
    /\ UNCHANGED <<identity, encoded>>
    /\ UNCHANGED regVars

NextCodec == Encode \/ Decode

SpecCodec == InitCodec /\ [][NextCodec]_vars

---------------------------------------------------------------------------
(* Properties of the container codec, checked under SpecCodec.             *)

\* The two codec errors of the specification are, in the code, the
\* OverflowError of int.to_bytes and the AssertionError of a failed assert.
UnsupportedKeyShape == "OverflowError"
MalformedIdentity == "AssertionError"

SigningNumbers(id) == public_numbers(parse_key(id.signing_public_key))
EncryptionNumbers(id) == public_numbers(parse_key(id.encryption_public_key))

\* the shape the container is made for: P-256, e = 65537, modulus of at
\* most 161 bytes
FitsContainer(id) ==
    /\ SigningNumbers(id).curve = "secp256r1"
    /\ EncryptionNumbers(id).e = 65537
    /\ Len(EncryptionNumbers(id).n) <= 161

\* C1: for an identity of the container's shape, encode succeeds and
\* decode(encode(identity)) succeeds with the same EC point and the same RSA
\* modulus and exponent, and with no private key, whether or not the input
\* carried private keys.
C1_RoundTrip ==
    FitsContainer(identity) =>
        /\ cpc # "new" => encoded.ok
        /\ (cpc = "decoded" /\ decInput = encoded.bytes) =>
              /\ decoded.ok
              /\ SigningNumbers(decoded.identity).curve = "secp256r1"
              /\ SigningNumbers(decoded.identity).x = SigningNumbers(identity).x
              /\ SigningNumbers(decoded.identity).y = SigningNumbers(identity).y
              /\ EncryptionNumbers(decoded.identity).n = EncryptionNumbers(identity).n
              /\ EncryptionNumbers(decoded.identity).e = EncryptionNumbers(identity).e
              /\ decoded.identity.signing_key = None
              /\ decoded.identity.encryption_key = None

\* an identity holding both private keys, with an X of 31 bytes and a
\* 128-byte modulus, has been encoded and its encoding decoded
C1_Witness ==
    /\ cpc = "decoded" /\ decInput = encoded.bytes /\ decoded.ok
    /\ FitsContainer(identity)
    /\ identity.signing_key # None /\ identity.encryption_key # None
    /\ Len(SigningNumbers(identity).x) = 31
    /\ Len(EncryptionNumbers(identity).n) = 128

\* C2: every successful encode returns 249 bytes: header at 0-4, EC tag at
\* 5-7, X at 8-39, Y at 40-71 (32 bytes each, big-endian, zero-padded),
\* separator at 72-74, RSA tags at 75-82, modulus at 83-243 (161 bytes,
\* zero-padded), exponent trailer for 65537 at 244-248.
C2_Layout ==
    (cpc # "new" /\ encoded.ok) =>
        LET b == encoded.bytes
            x == SigningNumbers(identity).x
            y == SigningNumbers(identity).y
            n == EncryptionNumbers(identity).n
        IN  /\ Len(b) = 249
            /\ SubSeq(b, 1, 5) = <<48, 129, 246, 129, 67>>
            /\ SubSeq(b, 6, 8) = <<0, 65, 4>>
            /\ SubSeq(b, 9, 40) = Zeros(32 - Len(x)) \o x
            /\ SubSeq(b, 41, 72) = Zeros(32 - Len(y)) \o y
            /\ SubSeq(b, 73, 75) = <<130, 129, 174>>
            /\ SubSeq(b, 76, 83) = <<0, 172, 48, 129, 169, 2, 129, 161>>
            /\ SubSeq(b, 84, 244) = Zeros(161 - Len(n)) \o n
            /\ SubSeq(b, 245, 249) = <<2, 3, 1, 0, 1>>

\* an encode succeeded on a key whose Y and modulus both need padding
C2_Witness ==
    /\ cpc = "encoded" /\ encoded.ok
    /\ Len(SigningNumbers(identity).y) = 31
    /\ Len(EncryptionNumbers(identity).n) = 160

\* inp is a 249-byte string that differs from base in exactly one byte, at
\* a tag offset
OneTagByteChanged(base, inp) ==
    /\ Len(inp) = 249 /\ Len(base) = 249
    /\ \E off \in TagOffsets :
          /\ inp[off + 1] # base[off + 1]
          /\ \A i \in 1..249 : i # off + 1 => inp[i] = base[i]

\* inp is a 249-byte string that differs from base, and only in the EC
\* coordinate region or the modulus region
OnlyKeyBytesChanged(base, inp) ==
    /\ Len(inp) = 249 /\ Len(base) = 249 /\ inp # base
    /\ \A off \in TagOffsets : inp[off + 1] = base[off + 1]

\* C5: changing one tag byte of an accepted container to any other value
\* makes decode fail with MalformedIdentity and return no identity;
\* replacing the key bytes by those of another valid key never fails a tag
\* check.
C5_CorruptionRejected ==
    (cpc = "decoded" /\ decode(encoded.bytes).ok) =>
        /\ OneTagByteChanged(encoded.bytes, decInput) =>
              /\ ~decoded.ok
              /\ decoded.err = MalformedIdentity
              /\ decoded.identity = None
        /\ OnlyKeyBytesChanged(encoded.bytes, decInput) =>
              decoded.err # MalformedIdentity

\* the first byte of the RSA prefix tag (offset 75) of an accepted container
\* was changed and decode refused it
C5_Witness ==
    /\ cpc = "decoded" /\ decode(encoded.bytes).ok
    /\ OneTagByteChanged(encoded.bytes, decInput)
    /\ decInput[76] # encoded.bytes[76]
    /\ ~decoded.ok /\ decoded.err = MalformedIdentity

\* C6: encode of an identity whose modulus needs more than 161 bytes fails
\* with UnsupportedKeyShape and returns no bytes.
C6_OversizedModulus ==
    (cpc # "new" /\ Len(EncryptionNumbers(identity).n) > 161) =>
        /\ ~encoded.ok
        /\ encoded.err = UnsupportedKeyShape
        /\ encoded.bytes = <<>>

\* encode was called on a 162-byte modulus and raised
C6_Witness ==
    /\ cpc = "encoded" /\ Len(EncryptionNumbers(identity).n) = 162
    /\ SigningNumbers(identity).curve = "secp256r1"
    /\ ~encoded.ok

\* C7: encode fails with UnsupportedKeyShape whenever the RSA public
\* exponent is not 65537 or the signing key's curve is not P-256.
C7_ExponentAndCurveChecked ==
    (cpc # "new" /\ (\/ EncryptionNumbers(identity).e # 65537
                     \/ SigningNumbers(identity).curve # "secp256r1")) =>
        /\ ~encoded.ok
        /\ encoded.err = UnsupportedKeyShape


---------------------------------------------------------------------------
(* register(push_token, handles, user_id, auth_key, push_key, identity,    *)
(*          validation_data)                                               *)

Empty == [k \in {} |-> 0]

\* base64.b64decode of a string given as the 6-bit values of its characters
\* (four characters to three bytes; the inputs used have no padding)
RECURSIVE b64decode(_)
b64decode(s) ==
    IF Len(s) < 4 THEN <<>>
    ELSE <<s[1] * 4 + (s[2] \div 16), (s[2] % 16) * 16 + (s[3] \div 4),
           (s[3] % 4) * 64 + s[4]>> \o b64decode(SubSeq(s, 5, Len(s)))

\* plistlib.dumps / plistlib.loads: the blob is kept as a tagged value;
\* loads undoes dumps.
dumps(value) == [plist |-> value]
loads(blob) == blob.plist

\* signing.armour_cert: the certificate in its textual envelope
armour_cert(cert) == [armoured |-> cert]

\* signing.add_auth_signature(headers, body, bag_key, auth_key, push_key,
\* push_token, auth_number): headers plus the signature headers, the auth
\* signature keyed by auth_number.  A signature value names the key and the
\* inputs it was made with; the body it covers is the one recorded in the
\* variable `signed` by the step that calls this.
add_auth_signature(hdrs, bag_key, auth_key, push_key, push_token, auth_number) ==
    hdrs @@ ("x-push-sig" :> <<push_key.key, bag_key, push_token>>)
         @@ ("x-push-token" :> push_token)
         @@ ("x-auth-sig" :>
                [index |-> auth_number,
                 sig |-> <<auth_key.key, bag_key, push_token>>])

\* PROTOCOL_VERSION of _helpers
PROTOCOL_VERSION == "1640"

\* the service entry of the request at lines 130-170
service_madrid(uris, user_id, enc) ==
        ("capabilities" :> <<("flags" :> 1)
              @@ ("name" :> "Messenger")
              @@ ("version" :> 1)>>)
        @@ ("service" :> "com.apple.madrid")
        @@ ("sub-services" :> <<"com.apple.private.alloy.sms",
            "com.apple.private.alloy.gelato",
            "com.apple.private.alloy.biz",
            "com.apple.private.alloy.gamecenter.imessage">>)
        @@ ("users" :> <<("client-data" :> (("is-c2k-equipment" :> TRUE)
                  @@ ("optionally-receive-typing-indicators" :> TRUE)
                  @@ ("public-message-identity-key" :> enc)
                  @@ ("public-message-identity-version" :> 2)
                  @@ ("show-peer-errors" :> TRUE)
                  @@ ("supports-ack-v1" :> TRUE)
                  @@ ("supports-activity-sharing-v1" :> TRUE)
                  @@ ("supports-audio-messaging-v2" :> TRUE)
                  @@ ("supports-autoloopvideo-v1" :> TRUE)
                  @@ ("supports-be-v1" :> TRUE)
                  @@ ("supports-ca-v1" :> TRUE)
                  @@ ("supports-fsm-v1" :> TRUE)
                  @@ ("supports-fsm-v2" :> TRUE)
                  @@ ("supports-fsm-v3" :> TRUE)
                  @@ ("supports-ii-v1" :> TRUE)
                  @@ ("supports-impact-v1" :> TRUE)
                  @@ ("supports-inline-attachments" :> TRUE)
                  @@ ("supports-keep-receipts" :> TRUE)
                  @@ ("supports-location-sharing" :> TRUE)
                  @@ ("supports-media-v2" :> TRUE)
                  @@ ("supports-photos-extension-v1" :> TRUE)
                  @@ ("supports-st-v1" :> TRUE)
                  @@ ("supports-update-attachments-v1" :> TRUE)))
              @@ ("uris" :> uris)
              @@ ("user-id" :> user_id)>>)

\* services[1] of the request (lines 171-206): its identity key is the bytes
\* literal of line 190, not identity.encode()
service_facetime_multi(uris, user_id) ==
        ("capabilities" :> <<("flags" :> 1)
              @@ ("name" :> "Invitation")
              @@ ("version" :> 1)>>)
        @@ ("service" :> "com.apple.private.alloy.facetime.multi")
        @@ ("sub-services" :> <<>>)
        @@ ("users" :> <<("client-data" :> (("public-message-ngm-device-prekey-data-key" :> <<10, 32, 180, 92, 21, 142, 164, 200, 229, 7, 152, 9, 112, 208, 164, 94, 132, 107, 5, 35, 69, 112, 169, 42, 205, 173, 116, 245, 176, 251, 166, 95, 104, 111, 18, 64, 227, 245, 202, 79, 119, 104, 253, 185, 236, 68, 9, 14, 158, 184, 176, 161, 28, 61, 146, 157, 68, 47, 108, 109, 76, 222, 46, 92, 111, 235, 21, 62, 159, 174, 217, 249, 209, 156, 42, 141, 85, 224, 210, 222, 111, 178, 203, 216, 248, 105, 212, 208, 97, 94, 9, 33, 15, 97, 178, 221, 73, 252, 95, 42, 25, 178, 240, 35, 18, 224, 64, 217, 65>>)
                  @@ ("supports-avless" :> TRUE)
                  @@ ("public-message-identity-key" :> HardcodedIdentityKey)
                  @@ ("supports-gft-calls" :> TRUE)
                  @@ ("public-message-identity-version" :> [float |-> "2.0"])
                  @@ ("supports-co" :> TRUE)
                  @@ ("supports-gft-errors" :> TRUE)
                  @@ ("supports-self-one-to-one-invites" :> TRUE)
                  @@ ("supports-modern-gft" :> TRUE)
                  @@ ("public-message-identity-ngm-version" :> [float |-> "12.0"])
                  @@ ("device-key-signature" :> <<48, 97, 4, 20, 29, 176, 50, 126, 239, 107, 38, 248, 13, 59, 82, 164, 149, 99, 126, 138, 144, 72, 133, 176, 2, 1, 1, 4, 70, 48, 68, 2, 32, 64, 206, 167, 80, 54, 137, 146, 87, 102, 135, 201, 197, 77, 45, 177, 229, 81, 159, 127, 75, 105, 27, 112, 213, 18, 28, 44, 58, 219, 237, 8, 18, 2, 32, 108, 253, 92, 226, 211, 58, 44, 193, 216, 8, 124, 190, 5, 77, 18, 238, 64, 194, 61, 101, 82, 56, 58, 167, 104, 51, 117, 124, 131, 105, 97, 25>>)))
              @@ ("kt-loggable-data" :> <<10, 34, 10, 32, 13, 108, 190, 202, 247, 232, 178, 137, 107, 24, 30, 185, 44, 100, 248, 226, 10, 191, 141, 225, 69, 214, 243, 84, 203, 217, 153, 100, 209, 109, 107, 235, 16, 12, 24, 5>>)
              @@ ("uris" :> uris)
              @@ ("user-id" :> user_id)>>)

\* the service entry of the request at lines 207-232
service_ess(uris, user_id, enc) ==
        ("capabilities" :> <<("flags" :> 1)
              @@ ("name" :> "Invitation")
              @@ ("version" :> 21)>>)
        @@ ("service" :> "com.apple.ess")
        @@ ("sub-services" :> <<"com.apple.private.alloy.facetime.video",
            "com.apple.private.alloy.facetime.sync",
            "com.apple.private.alloy.facetime.lp",
            "com.apple.private.alloy.facetime.mw">>)
        @@ ("users" :> <<("client-data" :> (("public-message-identity-key" :> enc)
                  @@ ("public-message-identity-version" :> 2)
                  @@ ("supports-avless" :> TRUE)
                  @@ ("supports-co" :> TRUE)
                  @@ ("supports-gft-calls" :> TRUE)
                  @@ ("supports-gft-errors" :> TRUE)
                  @@ ("supports-modern-gft" :> TRUE)
                  @@ ("supports-self-one-to-one-invites" :> TRUE)))
              @@ ("uris" :> uris)
              @@ ("user-id" :> user_id)>>)

\* the service entry of the request at lines 233-312
service_multiplex1(uris, user_id, enc) ==
        ("capabilities" :> <<("flags" :> 1)
              @@ ("name" :> "com.apple.private.alloy")
              @@ ("version" :> 1)>>)
        @@ ("service" :> "com.apple.private.alloy.multiplex1")
        @@ ("sub-services" :> <<"com.apple.private.alloy.continuity.encryption",
            "com.apple.private.alloy.willow.stream",
            "com.apple.private.alloy.status.keysharing",
            "com.apple.private.alloy.ids.cloudmessaging",
            "com.apple.private.alloy.avconference.icloud",
            "com.apple.private.alloy.keytransparency.accountkey.pinning",
            "com.apple.private.alloy.gamecenter",
            "com.apple.private.alloy.thumper.keys",
            "com.apple.private.alloy.electrictouch",
            "com.apple.private.alloy.alarms-timers",
            "com.apple.private.alloy.continuity.activity",
            "com.apple.private.alloy.home.invite",
            "com.apple.private.alloy.safeview",
            "com.apple.private.alloy.screensharing.qr",
            "com.apple.private.alloy.phone.auth",
            "com.apple.private.alloy.home",
            "com.apple.private.alloy.groupkit.invite",
            "com.apple.private.alloy.fmf",
            "com.apple.private.alloy.continuity.tethering",
            "com.apple.private.alloy.status.personal",
            "com.apple.private.alloy.amp.potluck",
            "com.apple.private.alloy.screentime",
            "com.apple.private.alloy.copresence",
            "com.apple.private.alloy.screentime.invite",
            "com.apple.private.alloy.tips",
            "com.apple.private.alloy.siri.icloud",
            "com.apple.private.alloy.maps.eta",
            "com.apple.private.alloy.phonecontinuity",
            "com.apple.private.alloy.sleep.icloud",
            "com.apple.private.alloy.usagetracking",
            "com.apple.private.alloy.icloudpairing",
            "com.apple.private.alloy.clockface.sharing",
            "com.apple.private.alloy.carmelsync",
            "com.apple.private.alloy.messagenotification",
            "com.apple.private.alloy.digitalhealth",
            "com.apple.private.alloy.ded",
            "com.apple.private.alloy.screensharing",
            "com.apple.private.alloy.contextsync",
            "com.apple.private.alloy.accessibility.switchcontrol",
            "com.apple.private.alloy.familycontrols",
            "com.apple.private.alloy.fmd",
            "com.apple.private.alloy.willow",
            "com.apple.private.alloy.coreduet.sync",
            "com.apple.private.alloy.nearby",
            "com.apple.private.alloy.safari.groupactivities",
            "com.apple.private.alloy.groupkit",
            "com.apple.private.alloy.accounts.representative",
            "com.apple.private.alloy.notes",
            "com.apple.private.alloy.classroom",
            "com.apple.private.alloy.applepay",
            "com.apple.private.alloy.proxiedcrashcopier.icloud",
            "com.apple.private.alloy.continuity.unlock",
            "com.apple.private.alloy.nearby.family">>)
        @@ ("users" :> <<("client-data" :> (("public-message-identity-key" :> enc)
                  @@ ("public-message-identity-version" :> 2)
                  @@ ("supports-beacon-sharing-v2" :> TRUE)
                  @@ ("supports-beneficiary-invites" :> TRUE)
                  @@ ("supports-cross-platform-sharing" :> TRUE)
                  @@ ("supports-fmd-v2" :> TRUE)
                  @@ ("supports-incoming-fmd-v1" :> TRUE)
                  @@ ("supports-maps-routing-path-leg" :> TRUE)
                  @@ ("supports-maps-waypoint-route-sharing" :> TRUE)
                  @@ ("supports-screen-time-v2" :> TRUE)
                  @@ ("supports-secure-loc-v1" :> TRUE)))
              @@ ("uris" :> uris)
              @@ ("user-id" :> user_id)>>)

\* the dict assigned to `body` at lines 120-315; enc is the value of
\* identity.encode() and u the value of uuid.uuid4().hex.upper()
request_body(handles, user_id, enc, u, validation_data) ==
    LET uris == [i \in 1..Len(handles) |-> ("uri" :> handles[i])]
        services == <<service_madrid(uris, user_id, enc),
                      service_facetime_multi(uris, user_id),
                      service_ess(uris, user_id, enc),
                      service_multiplex1(uris, user_id, enc)>>
    IN  ("device-name" :> "pypush")
        @@ ("hardware-version" :> "MacBookPro18,3")
        @@ ("language" :> "en-US")
        @@ ("os-version" :> "macOS,13.2.1,22D68")
        @@ ("software-version" :> "22D68")
        @@ ("private-device-data" :> ("u" :> u))
        @@ ("services" :> services)
        @@ ("validation-data" :> b64decode(validation_data))

---------------------------------------------------------------------------
(* The response the directory can send back.                               *)

\* number of services the response may list beyond the four of the request
MaxExtraServices == 0
\* number of users a response service may list beyond the first
MaxExtraUsers == 0

\* the values of the response's status field
Statuses == {0, 1, 6004}

\* the certificate the directory issues for the service at index i
Cert(i) == <<67, i>>
\* a user entry beyond the first
ExtraUser == [cert |-> <<88>>]

\* the users lists of a response service at index i: empty, or a first user
\* with or without a cert followed by extra users
UsersLists(i) ==
    {<<>>} \cup
    {<<u>> \o [j \in 1..k |-> ExtraUser] :
        u \in {Empty, [cert |-> Cert(i)]}, k \in 0..MaxExtraUsers}

\* a service entry of the response at index i: with or without a users field
ServiceDicts(i) == {Empty} \cup {[users |-> ul] : ul \in UsersLists(i)}

RECURSIVE ServicesOfLen(_)
ServicesOfLen(n) ==
    IF n = 0 THEN {<<>>}
    ELSE {Append(s, d) : s \in ServicesOfLen(n - 1), d \in ServiceDicts(n)}

ServicesLists == UNION {ServicesOfLen(n) : n \in 0..(4 + MaxExtraServices)}

\* the plists the response body can hold: status and services each present
\* or absent
Responses ==
    {Empty} \cup {[status |-> s] : s \in Statuses}
    \cup {[services |-> l] : l \in ServicesLists}
    \cup {[status |-> s, services |-> l] : s \in Statuses, l \in ServicesLists}

---------------------------------------------------------------------------
(* Response validation and extraction, lines 334-354.                      *)

\* how a call ended: exc = "" for a return, else the exception's class, its
\* message and the response it quotes
Returned == [exc |-> "", msg |-> "", r |-> None]
Raised(exc, msg, resp) == [exc |-> exc, msg |-> msg, r |-> resp]
Running == [exc |-> "running", msg |-> "", r |-> None]

\* r["services"][i]["users"][0]["cert"] for the 0-based index i: list
\* indexing raises IndexError, dict lookup KeyError
cert_at(resp, i) ==
    IF Len(resp.services) < i + 1 THEN [ok |-> FALSE, exc |-> "IndexError"]
    ELSE IF "users" \notin DOMAIN resp.services[i + 1]
         THEN [ok |-> FALSE, exc |-> "KeyError"]
    ELSE IF Len(resp.services[i + 1].users) < 1
         THEN [ok |-> FALSE, exc |-> "IndexError"]
    ELSE IF "cert" \notin DOMAIN resp.services[i + 1].users[1]
         THEN [ok |-> FALSE, exc |-> "KeyError"]
    ELSE [ok |-> TRUE, exc |-> "", cert |-> resp.services[i + 1].users[1].cert]

\* the names the returned dict is keyed by, in the order of lines 347-352
ResultNames ==
    <<"com.apple.madrid", "com.apple.private.alloy.facetime.multi",
      "com.apple.ess", "com.apple.private.alloy.multiplex1">>

\* an extraction that binds the first service's cert to every name
extract_first_cert(resp) ==
    IF ~cert_at(resp, 0).ok
    THEN [outcome |-> Raised(cert_at(resp, 0).exc, "", None), result |-> <<>>]
    ELSE [outcome |-> Returned,
          result |-> [i \in 1..4 |->
                        <<ResultNames[i], armour_cert(cert_at(resp, 0).cert)>>]]

\* the dict display of lines 346-354: its four values are evaluated in
\* order, the first lookup that raises ends the call; the returned dict is
\* kept as the sequence of its (key, value) pairs in insertion order
extract(resp) ==
    LET failing == {i \in 0..3 : ~cert_at(resp, i).ok}
        first == CHOOSE i \in failing : \A j \in failing : i <= j
    IN  IF failing # {}
        THEN [outcome |-> Raised(cert_at(resp, first).exc, "", None),
              result |-> <<>>]
        ELSE [outcome |-> Returned,
              result |-> [i \in 1..4 |->
                            <<ResultNames[i],
                              armour_cert(cert_at(resp, i - 1).cert)>>]]

\* lines 334-354 on the parsed response
validate(resp) ==
    IF "status" \in DOMAIN resp /\ resp.status = 6004
    THEN [outcome |-> Raised("Exception", "Validation data expired!", None),
          result |-> <<>>]
    ELSE IF "status" \in DOMAIN resp /\ resp.status # 0
    THEN [outcome |-> Raised("Exception", "Failed to register: ", resp),
          result |-> <<>>]
    ELSE IF "services" \notin DOMAIN resp
    THEN [outcome |-> Raised("Exception", "No services in response: ", resp),
          result |-> <<>>]
    ELSE IF Len(resp.services) < 1
    THEN [outcome |-> Raised("IndexError", "", None), result |-> <<>>]
    ELSE IF "users" \notin DOMAIN resp.services[1]
    THEN [outcome |-> Raised("Exception", "No users in response: ", resp),
          result |-> <<>>]
    ELSE IF Len(resp.services[1].users) < 1
    THEN [outcome |-> Raised("IndexError", "", None), result |-> <<>>]
    ELSE IF "cert" \notin DOMAIN resp.services[1].users[1]
    THEN [outcome |-> Raised("Exception", "No cert in response: ", resp),
          result |-> <<>>]
    ELSE extract(resp)

---------------------------------------------------------------------------
(* One register call, step by step.                                        *)

\* the arguments a caller passes besides the identity
RegisterArgs ==
    [push_token : {<<222, 173, 190, 239>>},
     handles : {<<"tel:+15555550100", "mailto:user@example.com">>},
     user_id : {"D:1000000001"},
     auth_key : {[key |-> "auth-key", cert |-> "auth-cert"]},
     push_key : {[key |-> "push-key", cert |-> "push-cert"]},
     validation_data : {<<29, 38, 5, 44, 25, 6, 61, 53>>}]

\* the values uuid.uuid4().hex.upper() can take
UUIDs == {"0F1E2D3C4B5A69788796A5B4C3D2E1F0", "A0B1C2D3E4F5061728394A5B6C7D8E9F"}

\* the identities register is called with: public-only and with private
\* keys, the second with a modulus that does not fit the container
RegisterIdentities ==
    {id \in Identities :
        \/ /\ id.signing_key = None /\ id.encryption_key = None
           /\ SigningNumbers(id).x = P256_G_x
           /\ EncryptionNumbers(id) = RSAPublicKey(N1288, 65537)
        \/ /\ id.signing_key # None /\ id.encryption_key # None
           /\ SigningNumbers(id).x = P256_A_x
           /\ EncryptionNumbers(id).e = 65537
           /\ EncryptionNumbers(id).n \in {N1280, N1296}}

InitRegister ==
    /\ identity \in RegisterIdentities
    /\ args \in RegisterArgs
    /\ pc = "start" /\ body = None /\ headers = None /\ signed = None
    /\ posted = None /\ r = None /\ outcome = Running /\ result = <<>>
    /\ trace = <<>>
    /\ cpc = "idle" /\ encoded = NoEncode /\ decInput = <<>>
    /\ decoded = NoDecode

\* lines 116-315: the request dict.  identity.encode() is evaluated for
\* services 0, 2 and 3; when it raises, register ends with that exception.
BuildBody ==
    /\ pc = "start"
    /\ LET enc == encode(identity)
       IN  IF ~enc.ok
           THEN /\ outcome' = Raised(enc.err, "", None)
                /\ pc' = "done"
                /\ body' = body
           ELSE /\ \E u \in UUIDs :
                     body' = request_body(args.handles, args.user_id,
                                          enc.bytes, u, args.validation_data)
                /\ pc' = "built"
                /\ outcome' = outcome
    /\ UNCHANGED <<identity, args, headers, signed, posted, r, result, trace>>
    /\ UNCHANGED codecVars

\* line 317: body = plistlib.dumps(body)
Serialize ==
    /\ pc = "built"
    /\ body' = dumps(body)
    /\ trace' = Append(trace, "serialize")
    /\ pc' = "serialized"
    /\ UNCHANGED <<identity, args, headers, signed, posted, r, outcome, result>>
    /\ UNCHANGED codecVars

\* lines 319-323: the headers, signed over body with auth number 0
Sign ==
    /\ pc = "serialized"
    /\ headers' = add_auth_signature(
                      ("x-protocol-version" :> PROTOCOL_VERSION)
                          @@ ("x-auth-user-id-0" :> args.user_id),
                      "id-register", args.auth_key, args.push_key,
                      args.push_token, 0)
    /\ signed' = [body |-> body, bag_key |-> "id-register", auth_number |-> 0]
    /\ trace' = Append(trace, "sign")
    /\ pc' = "signed"
    /\ UNCHANGED <<identity, args, body, posted, r, outcome, result>>
    /\ UNCHANGED codecVars

\* lines 325-330: requests.post(url, headers=headers, data=body); the
\* directory answers with some response plist
Post ==
    /\ pc = "signed"
    /\ posted' = [url |-> "https://identity.ess.apple.com/WebObjects/TDIdentityService.woa/wa/register",
                  headers |-> headers, data |-> body]
    /\ \E resp \in Responses : r' = [content |-> dumps(resp)]
    /\ trace' = Append(trace, "send")
    /\ pc' = "posted"
    /\ UNCHANGED <<identity, args, body, headers, signed, outcome, result>>
    /\ UNCHANGED codecVars

\* line 331: r = plistlib.loads(r.content)
Load ==
    /\ pc = "posted"
    /\ r' = loads(r.content)
    /\ trace' = Append(trace, "deserialize")
    /\ pc' = "loaded"
    /\ UNCHANGED <<identity, args, body, headers, signed, posted, outcome, result>>
    /\ UNCHANGED codecVars

\* a validation step that signs and sends again when the validation data
\* expired
ValidateWithRetry ==
    /\ pc = "loaded"
    /\ LET v == validate(r)
       IN  IF v.outcome.msg = "Validation data expired!"
           THEN /\ pc' = "serialized"
                /\ outcome' = outcome /\ result' = result
           ELSE /\ pc' = "done"
                /\ outcome' = v.outcome /\ result' = v.result
    /\ trace' = Append(trace, "validate")
    /\ UNCHANGED <<identity, args, body, headers, signed, posted, r>>
    /\ UNCHANGED codecVars

\* lines 334-354: the call raises or returns
Validate ==
    /\ pc = "loaded"
    /\ outcome' = validate(r).outcome
    /\ result' = validate(r).result
    /\ trace' = Append(trace, "validate")
    /\ pc' = "done"
    /\ UNCHANGED <<identity, args, body, headers, signed, posted, r>>
    /\ UNCHANGED codecVars

NextRegister == BuildBody \/ Serialize \/ Sign \/ Post \/ Load \/ Validate

SpecRegister == InitRegister /\ [][NextRegister]_vars

\* the codec scenario and the register call, each from its own start
Init == InitCodec \/ InitRegister
Next == NextCodec \/ NextRegister
Spec == Init /\ [][Next]_vars

---------------------------------------------------------------------------
(* Properties of register, checked under SpecRegister.                     *)

\* the validation step of the call has run
Validated == pc = "done" /\ Len(trace) = 5

\* the terminal outcome of the specification that the call's ending stands
\* for: the five messages of lines 335-344, a return, or an exception that
\* is none of them
OutcomeKind ==
    IF outcome = Returned THEN "Accepted"
    ELSE IF outcome.exc # "Exception" THEN "Untyped"
    ELSE IF outcome.msg = "Validation data expired!" THEN "Expired"
    ELSE IF outcome.msg = "Failed to register: " THEN "Rejected"
    ELSE IF outcome.msg = "No services in response: " THEN "MissingServices"
    ELSE IF outcome.msg = "No users in response: " THEN "MissingUsers"
    ELSE IF outcome.msg = "No cert in response: " THEN "MissingCert"
    ELSE "Untyped"

\* the outcome the ordered rules (1)-(6) give for a response
RuleOutcome(resp) ==
    IF "status" \in DOMAIN resp /\ resp.status = 6004 THEN "Expired"
    ELSE IF "status" \in DOMAIN resp /\ resp.status # 0 THEN "Rejected"
    ELSE IF "services" \notin DOMAIN resp THEN "MissingServices"
    ELSE IF Len(resp.services) >= 1 /\ "users" \notin DOMAIN resp.services[1]
         THEN "MissingUsers"
    ELSE IF /\ Len(resp.services) >= 1
            /\ Len(resp.services[1].users) >= 1
            /\ "cert" \notin DOMAIN resp.services[1].users[1]
         THEN "MissingCert"
    ELSE "Accepted"

\* C3: the outcome of response validation is the one the first applicable
\* rule gives, in the order Expired, Rejected (carrying the raw response),
\* MissingServices, MissingUsers, MissingCert, otherwise Accepted.
C3_FirstRuleDecides ==
    Validated =>
        /\ OutcomeKind = RuleOutcome(r)
        /\ OutcomeKind = "Rejected" => outcome.r = r

\* the request dict of the call, once built
RequestDict == IF pc = "built" THEN body ELSE loads(body)

\* C4: for a response with status absent or 0 and four services, each with
\* one user that has a cert, register returns exactly four entries in the
\* order of the request's services, entry i binding the name of request
\* service i to the armoured cert of response service i and to no other
\* service's cert.
C4_HappyPath ==
    (/\ Validated
     /\ "status" \in DOMAIN r => r.status = 0
     /\ "services" \in DOMAIN r
     /\ Len(r.services) = 4
     /\ \A i \in 1..4 :
           /\ "users" \in DOMAIN r.services[i]
           /\ Len(r.services[i].users) = 1
           /\ "cert" \in DOMAIN r.services[i].users[1])
    => /\ outcome = Returned
       /\ Len(result) = 4
       /\ Len(loads(posted.data).services) = 4
       /\ \A i \in 1..4 :
             /\ result[i][1] = loads(posted.data).services[i].service
             /\ result[i][2] = armour_cert(r.services[i].users[1].cert)
             /\ \A j \in 1..4 :
                   j # i => result[i][2] # armour_cert(r.services[j].users[1].cert)
       /\ \A i, j \in 1..4 : i # j => result[i][1] # result[j][1]

\* a call whose response had no status field and four complete services
\* returned its mapping
C4_Witness ==
    /\ Validated /\ outcome = Returned /\ Len(result) = 4
    /\ "status" \notin DOMAIN r
    /\ Len(r.services) = 4

\* C8: in the request built for an identity, every service whose client-data
\* has a public-message-identity-key carries identity.encode() under it.
C8_IdentityKeyIsEncode ==
    pc \in {"built", "serialized", "signed", "posted", "loaded"} =>
        \A i \in 1..Len(RequestDict.services) :
            LET cd == RequestDict.services[i].users[1]["client-data"]
            IN  "public-message-identity-key" \in DOMAIN cd =>
                    cd["public-message-identity-key"] = encode(identity).bytes

\* C9: whatever the deserialized response, register ends in one of Expired,
\* Rejected, MissingServices, MissingUsers, MissingCert or Accepted, and
\* returns the full mapping or none.
C9_ValidationTotal ==
    Validated =>
        /\ OutcomeKind \in {"Expired", "Rejected", "MissingServices",
                            "MissingUsers", "MissingCert", "Accepted"}
        /\ Len(result) = IF OutcomeKind = "Accepted" THEN 4 ELSE 0

\* the steps of one call, in order
Steps == <<"serialize", "sign", "send", "deserialize", "validate">>

\* the number of steps a call at position pc has performed
StepsDoneAt ==
    [x \in {"start", "built", "serialized", "signed", "posted", "loaded"} |->
        CASE x = "start" -> 0 [] x = "built" -> 0 [] x = "serialized" -> 1
          [] x = "signed" -> 2 [] x = "posted" -> 3 [] x = "loaded" -> 4]

=============================================================================
